---- MODULE Spec2Model ----
(***************************************************************************)
(* A model of simul_ssh.py: the ClientManager (session registry, active    *)
(* hosts, broadcast, teardown) and the command loop of main().             *)
(*                                                                         *)
(* Python sets are objects: a name holds a reference, and two names may    *)
(* hold the same object.  The sets the program keeps (active_hosts and the *)
(* values of group_dict) therefore live in a heap of set objects, and the  *)
(* variables hold object identities.  Identities are canonical: an object  *)
(* that group_dict holds under a name is called by that name, and an       *)
(* object that only active_hosts holds is called Own.                      *)
(*                                                                         *)
(* An input line is a sequence of lexemes: a word, or SP, one whitespace   *)
(* character.  str.split() and ' '.join() are computed on that sequence.   *)
(***************************************************************************)
EXTENDS Naturals, Sequences, FiniteSets

\* ------------------------------------------------------------------ bounds
MaxEnv == 2      \* most host arguments on the command line
MaxArgs == 1     \* most host names typed in one command
MaxText == 2     \* most lexemes in the text of an exec line
MaxBuf == 1      \* most chunks (of up to 1024 bytes) a stream holds unread

SP == " "
NL == "\n"
HostNames == {"h1", "h2"}               \* names given on the command line
GroupNames == {"h1", "web"}             \* words typed as the name of a group
Words == HostNames \cup GroupNames      \* words typed as command arguments
TextWords == {"ls"}                     \* words typed in the text of exec

VARIABLES
    environments,   \* args.environments
    idx,            \* position of the startup loop "for environment in environments"
    phase,          \* Connecting, Interactive, Terminated, Aborted, Crashed
    created,        \* number of SSHClient/Channel pairs made by add_client
    clients,        \* manager.clients: hostname -> client (its number)
    shells,         \* manager.shells:  hostname -> channel (its number)
    heap,           \* the set objects: identity -> content
    active_hosts,   \* manager.active_hosts: the identity of a set object
    group_dict,     \* group_dict: name -> the identity of a set object
    command_str,    \* the line most recently read by raw_input('> ')
    out,            \* what the most recent command printed
    sendLog,        \* the sendall calls of the most recent command, in order
    closeLog,       \* the close calls made so far, in order
    lastAdd,        \* the hosts of a successful add and the active set before it,
                    \* while that add is the most recent command or the most
                    \* recent command is the rm of the same hosts right after it
    defined,        \* history, recorded under SpecHistory only: name -> the hosts
                    \* given when the group was last defined
    pc,             \* where ClientManager.recv stands; "loop" outside it
    todo,           \* the hosts "for hostname in self.active_hosts" has yet to visit
    recv_hostname,  \* the host recv is visiting (its loop variable hostname), "" outside
    ready,          \* chunks the stream under drain holds unread
    headers,        \* headers printed for the stream under drain, in this drain
    chunks,         \* chunks printed for the stream under drain, counted up to MaxBuf
    hadData         \* whether the stream under drain held data at any time of the visit

\* the state of a drain
drain == <<pc, todo, recv_hostname, ready, headers, chunks, hadData>>

vars == <<environments, idx, phase, created, clients, shells, heap, active_hosts,
          group_dict, command_str, out, sendLog, closeLog, lastAdd, defined, drain>>

\* ----------------------------------------------------------------- helpers
Range(s) == {s[i] : i \in DOMAIN s}

EmptyMap == [x \in {} |-> 0]

Put(f, k, v) == [x \in DOMAIN f \cup {k} |-> IF x = k THEN v ELSE f[x]]

SeqsUpTo(S, n) == UNION {[1..k -> S] : k \in 0..n}

\* every order in which the elements of a set may be visited
Orders(S) == {s \in [1..Cardinality(S) -> S] : \A i, j \in DOMAIN s : s[i] = s[j] => i = j}

\* str.split(): the words of a line, whitespace dropped
SplitWs(line) == SelectSeq(line, LAMBDA x : x # SP)

\* ' '.join(words)
RECURSIVE JoinSp(_)
JoinSp(words) ==
    IF Len(words) <= 1 THEN words
    ELSE <<Head(words), SP>> \o JoinSp(Tail(words))

\* a line never holds two words with no whitespace between them
WellFormed(line) == \A i \in 1..(Len(line) - 1) : line[i] = SP \/ line[i + 1] = SP

CommandName(line) == Head(SplitWs(line))
CommandArgs(line) == Tail(SplitWs(line))

\* ------------------------------------------------------------ the set heap
Own == "*"
ObjIds == {Own} \cup GroupNames

ActiveSet == heap[active_hosts]
Registry == DOMAIN clients
GroupRegistry == [n \in DOMAIN group_dict |-> heap[group_dict[n]]]

\* active_hosts = <a new set with these hosts>: the set it held before is
\* reclaimed unless a group holds it
Rebind(hs) == [heap EXCEPT ![Own] = hs]

\* what a command prints: the text, and the hosts listed after it
Msg(m) == [msg |-> m, hosts |-> {}]
HostsMsg(m, hs) == [msg |-> m, hosts |-> hs]

NoAdd == [hosts |-> {}, active |-> {}]

\* --------------------------------------------------------------------- Init
EnvLists == {e \in SeqsUpTo(HostNames, MaxEnv) : Len(e) >= 1}

Init ==
    /\ environments \in EnvLists
    /\ idx = 1
    /\ phase = "Connecting"
    /\ created = 0
    /\ clients = EmptyMap
    /\ shells = EmptyMap
    /\ heap = [o \in ObjIds |-> {}]
    /\ active_hosts = Own
    /\ group_dict = EmptyMap
    /\ command_str = <<>>
    /\ out = Msg("")
    /\ sendLog = <<>>
    /\ closeLog = <<>>
    /\ lastAdd = NoAdd
    /\ defined = EmptyMap
    /\ pc = "loop"
    /\ todo = {}
    /\ recv_hostname = ""
    /\ ready = 0
    /\ headers = 0
    /\ chunks = 0
    /\ hadData = FALSE

\* ------------------------------------------------------------------ startup
\* ClientManager.add_client for the next host argument, connect succeeding
AddClientNotActive ==
    /\ phase = "Connecting"
    /\ idx <= Len(environments)
    /\ created' = created + 1
    /\ clients' = Put(clients, environments[idx], created + 1)
    /\ shells' = Put(shells, environments[idx], created + 1)
    /\ idx' = idx + 1
    /\ UNCHANGED <<environments, phase, heap, active_hosts, group_dict, command_str, out,
                   sendLog, closeLog, lastAdd, defined, drain>>
AddClient ==
    /\ phase = "Connecting"
    /\ idx <= Len(environments)
    /\ LET hostname == environments[idx] IN
        /\ created' = created + 1
        /\ heap' = [heap EXCEPT ![active_hosts] = @ \cup {hostname}]
        /\ clients' = Put(clients, hostname, created + 1)
        /\ shells' = Put(shells, hostname, created + 1)
    /\ idx' = idx + 1
    /\ UNCHANGED <<environments, phase, active_hosts, group_dict, command_str, out,
                   sendLog, closeLog, lastAdd, defined, drain>>

\* client.connect (or open_session, invoke_shell) raises: nothing catches it
ConnectFailSkips ==
    /\ phase = "Connecting"
    /\ idx <= Len(environments)
    /\ idx' = idx + 1
    /\ UNCHANGED <<environments, phase, created, clients, shells, heap, active_hosts,
                   group_dict, command_str, out, sendLog, closeLog, lastAdd, defined,
                   drain>>
ConnectFail ==
    /\ phase = "Connecting"
    /\ idx <= Len(environments)
    /\ phase' = "Aborted"
    /\ UNCHANGED <<environments, idx, created, clients, shells, heap, active_hosts,
                   group_dict, command_str, out, sendLog, closeLog, lastAdd, defined,
                   drain>>

\* the startup loop is over; return is hit at the prompt; group_dict = {}
Confirm ==
    /\ phase = "Connecting"
    /\ idx > Len(environments)
    /\ phase' = "Interactive"
    /\ group_dict' = EmptyMap
    /\ UNCHANGED <<environments, idx, created, clients, shells, heap, active_hosts,
                   command_str, out, sendLog, closeLog, lastAdd, defined, drain>>

\* ------------------------------------------------------------- command loop
\* raw_input('> ') returns line while the loop runs
ReadAnyPhase(line) ==
    /\ pc = "loop"
    /\ command_str' = line
Read(line) ==
    /\ phase = "Interactive"
    /\ pc = "loop"
    /\ command_str' = line

\* what no command but quit touches
FrameForgets ==
    /\ UNCHANGED <<environments, idx, created, closeLog>>
    /\ clients' = EmptyMap
    /\ shells' = EmptyMap
Frame == UNCHANGED <<environments, idx, created, clients, shells, closeLog>>

ArgLists == {s \in SeqsUpTo(Words, MaxArgs) : Len(s) >= 1}

\* the arguments typed after switch: host names, or "all" and host names
SwitchArgLists == ArgLists \cup {<<"all">> \o r : r \in SeqsUpTo(Words, MaxArgs)}

\* the arguments typed after group: a name and host names
GroupArgLists == {<<n>> \o r : n \in GroupNames, r \in ArgLists}

\* all(host in manager.clients.keys() for host in hosts)
KnownHostsNoCheck(hosts) == TRUE
KnownHosts(hosts) == \A host \in hosts : host \in DOMAIN clients

\* set(command_args) of "switch host..."
SwitchSetUnion(command_args) == ActiveSet \cup Range(command_args)
SwitchSet(command_args) == Range(command_args)

\* set.update and set.difference_update, on the content of the object
Update(cur, to_add) == cur \cup to_add
DifferenceUpdateNothing(cur, to_remove) == cur
DifferenceUpdate(cur, to_remove) == cur \ to_remove

\* empty line: continue
EmptyLine ==
    \E line \in {<<>>, <<SP>>} :
        /\ Read(line)
        /\ SplitWs(line) = <<>>
        /\ out' = Msg("")
        /\ sendLog' = <<>>
        /\ lastAdd' = NoAdd
        /\ Frame
        /\ UNCHANGED drain
        /\ UNCHANGED <<phase, heap, active_hosts, group_dict, defined>>

Hosts ==
    /\ Read(<<"hosts">>)
    /\ out' = HostsMsg("Active hosts: ", ActiveSet)
    /\ sendLog' = <<>>
    /\ lastAdd' = NoAdd
    /\ Frame
    /\ UNCHANGED drain
    /\ UNCHANGED <<phase, heap, active_hosts, group_dict, defined>>

Switch ==
    \E args \in SwitchArgLists :
        LET line == JoinSp(<<"switch">> \o args)
            command_args == CommandArgs(line)
        IN  /\ Read(line)
            /\ CommandName(line) = "switch" /\ Len(command_args) > 0
            /\ IF command_args[1] = "all"
               THEN /\ active_hosts' = Own
                    /\ heap' = Rebind(DOMAIN clients)
                    /\ out' = HostsMsg("Active hosts set to all: ", DOMAIN clients)
               ELSE IF command_args[1] \in DOMAIN group_dict
               THEN LET group_name == command_args[1] IN
                    /\ active_hosts' = group_dict[group_name]
                    /\ heap' = Rebind({})
                    /\ out' = HostsMsg("Active hosts set to group: ",
                                       heap[group_dict[group_name]])
               ELSE IF KnownHosts(Range(command_args))
               THEN /\ active_hosts' = Own
                    /\ heap' = Rebind(SwitchSet(command_args))
                    /\ out' = HostsMsg("Active hosts: ", SwitchSet(command_args))
               ELSE /\ out' = Msg("Invalid switch.")
                    /\ UNCHANGED <<heap, active_hosts>>
            /\ sendLog' = <<>>
            /\ lastAdd' = NoAdd
            /\ Frame
            /\ UNCHANGED drain
            /\ UNCHANGED <<phase, group_dict, defined>>

Add ==
    \E args \in ArgLists :
        LET line == JoinSp(<<"add">> \o args)
            command_args == CommandArgs(line)
            to_add == Range(command_args)
        IN  /\ Read(line)
            /\ CommandName(line) = "add" /\ Len(command_args) > 0
            /\ IF KnownHosts(to_add)
               THEN /\ heap' = [heap EXCEPT ![active_hosts] = Update(@, to_add)]
                    /\ out' = HostsMsg("Active hosts: ", Update(ActiveSet, to_add))
                    /\ lastAdd' = [hosts |-> to_add, active |-> ActiveSet]
               ELSE /\ out' = Msg("Invalid host(s).")
                    /\ lastAdd' = NoAdd
                    /\ UNCHANGED heap
            /\ sendLog' = <<>>
            /\ Frame
            /\ UNCHANGED drain
            /\ UNCHANGED <<phase, active_hosts, group_dict, defined>>

Rm ==
    \E args \in ArgLists :
        LET line == JoinSp(<<"rm">> \o args)
            command_args == CommandArgs(line)
            to_remove == Range(command_args)
        IN  /\ Read(line)
            /\ CommandName(line) = "rm" /\ Len(command_args) > 0
            /\ IF KnownHosts(to_remove)
               THEN /\ heap' = [heap EXCEPT ![active_hosts] = DifferenceUpdate(@, to_remove)]
                    /\ out' = HostsMsg("Active hosts: ", DifferenceUpdate(ActiveSet, to_remove))
               ELSE /\ out' = Msg("Invalid host(s).")
                    /\ UNCHANGED heap
            /\ lastAdd' = IF /\ SplitWs(command_str) # <<>>
                             /\ CommandName(command_str) = "add"
                             /\ KnownHosts(to_remove)
                             /\ lastAdd.hosts = to_remove
                          THEN lastAdd ELSE NoAdd
            /\ sendLog' = <<>>
            /\ Frame
            /\ UNCHANGED drain
            /\ UNCHANGED <<phase, active_hosts, group_dict, defined>>

\* whether the active set is the very set object the group name is bound to
HeldByActiveIgnored(group_name) == FALSE
HeldByActive(group_name) == active_hosts = group_name

\* group_dict[group_name] = group_hosts, a new set.  When active_hosts holds
\* the set the name held before, that set is from now on held by
\* active_hosts alone.
GroupCmd(record) ==
    \E args \in GroupArgLists :
        LET line == JoinSp(<<"group">> \o args)
            command_args == CommandArgs(line)
        IN  /\ Read(line)
            /\ CommandName(line) = "group" /\ Len(command_args) > 1
            /\ LET group_name == command_args[1]
                   group_hosts == Range(Tail(command_args))
               IN  IF KnownHosts(group_hosts)
                   THEN /\ group_dict' = Put(group_dict, group_name, group_name)
                        /\ IF HeldByActive(group_name)
                           THEN /\ active_hosts' = Own
                                /\ heap' = [heap EXCEPT ![Own] = heap[group_name],
                                                        ![group_name] = group_hosts]
                           ELSE /\ active_hosts' = active_hosts
                                /\ heap' = [heap EXCEPT ![group_name] = group_hosts]
                        /\ defined' = IF record THEN Put(defined, group_name, group_hosts)
                                      ELSE defined
                        /\ out' = HostsMsg("Created group", group_hosts)
                   ELSE /\ out' = Msg("Invalid host(s).")
                        /\ UNCHANGED <<heap, active_hosts, group_dict, defined>>
            /\ sendLog' = <<>>
            /\ lastAdd' = NoAdd
            /\ Frame
            /\ UNCHANGED drain
            /\ UNCHANGED phase

Group == GroupCmd(FALSE)
GroupRecorded == GroupCmd(TRUE)

Groups ==
    /\ Read(<<"groups">>)
    /\ out' = IF DOMAIN group_dict = {} THEN Msg("No groups.")
              ELSE HostsMsg("groups", UNION Range(GroupRegistry))
    /\ sendLog' = <<>>
    /\ lastAdd' = NoAdd
    /\ Frame
    /\ UNCHANGED drain
    /\ UNCHANGED <<phase, heap, active_hosts, group_dict, defined>>

Help ==
    /\ Read(<<"help">>)
    /\ out' = Msg("help_str")
    /\ sendLog' = <<>>
    /\ lastAdd' = NoAdd
    /\ Frame
    /\ UNCHANGED drain
    /\ UNCHANGED <<phase, heap, active_hosts, group_dict, defined>>

\* lines no branch of the chain accepts
InvalidLines ==
    {<<"frob">>, <<"switch">>, <<"add">>, <<"rm">>, <<"group">>, <<"group", SP, "web">>}

Invalid ==
    \E line \in InvalidLines :
        /\ Read(line)
        /\ LET command_name == CommandName(line)
               command_args == CommandArgs(line)
           IN  /\ ~(command_name \in {"switch", "add", "rm"} /\ Len(command_args) > 0)
               /\ ~(command_name = "group" /\ Len(command_args) > 1)
               /\ command_name \notin {"hosts", "groups", "exec", "recv", "help", "quit"}
        /\ out' = Msg("Invalid command.")
        /\ sendLog' = <<>>
        /\ lastAdd' = NoAdd
        /\ Frame
        /\ UNCHANGED drain
        /\ UNCHANGED <<phase, heap, active_hosts, group_dict, defined>>

\* the text typed after "exec": words and whitespace in any arrangement
Texts == {t \in SeqsUpTo({SP} \cup TextWords, MaxText) : WellFormed(t)}
ExecLines == {<<"exec">>} \cup {<<"exec", SP>> \o t : t \in Texts}

\* the hosts ClientManager.run_command visits
RunCommandHostsAll == DOMAIN shells
RunCommandHosts == ActiveSet

\* exec: run_command(' '.join(command_args) + '\n').  The set is visited in
\* an order the program does not choose; a sendall that raises (failAt) ends
\* the loop and, nothing catching it, the program.
Exec ==
    \E line \in ExecLines, failAt \in 0..Cardinality(HostNames) :
    \E order \in Orders(RunCommandHosts) :
        LET command == JoinSp(CommandArgs(line)) \o <<NL>>
            n == IF failAt = 0 THEN Len(order) ELSE failAt
        IN  /\ Read(line)
            /\ CommandName(line) = "exec"
            /\ failAt <= Len(order)
            /\ sendLog' = [i \in 1..n |-> [hostname |-> order[i],
                                           shell |-> shells[order[i]],
                                           data |-> command,
                                           ok |-> i # failAt]]
            /\ phase' = IF failAt = 0 THEN "Interactive" ELSE "Crashed"
            /\ out' = Msg("Running command")
            /\ lastAdd' = NoAdd
            /\ Frame
            /\ UNCHANGED drain
            /\ UNCHANGED <<heap, active_hosts, group_dict, defined>>

\* the channels and the clients ClientManager.close_all closes
ShellsToCloseActive == {shells[h] : h \in ActiveSet \cap DOMAIN shells}
ShellsToClose == Range(shells)
ClientsToClose == Range(clients)

\* the close calls of close_all, in order
CloseCalls(so, co) ==
    [i \in 1..Len(so) |-> [kind |-> "shell", id |-> so[i]]]
    \o [i \in 1..Len(co) |-> [kind |-> "client", id |-> co[i]]]

\* quit: close_all(), break
Quit ==
    \E so \in Orders(ShellsToClose), co \in Orders(ClientsToClose) :
        /\ Read(<<"quit">>)
        /\ out' = Msg("Quitting.")
        /\ closeLog' = closeLog \o CloseCalls(so, co)
        /\ phase' = "Terminated"
        /\ sendLog' = <<>>
        /\ lastAdd' = NoAdd
        /\ UNCHANGED <<environments, idx, created, clients, shells, heap, active_hosts,
                       group_dict, defined, drain>>

\* ------------------------------------------------------------------- recv
\* ClientManager.recv, one step for each call on a channel.  What a remote
\* host has sent is outside the program: a stream holds any number of chunks
\* when recv comes to it, and more may arrive while recv is at it.

\* the hosts ClientManager.recv visits
RecvHosts == ActiveSet

\* shell.recv_ready() / shell.recv_stderr_ready(), of the "if"
RecvReadyAlways(n) == TRUE
RecvReady(n) == n > 0

\* what recv leaves alone
DrainFramePops ==
    /\ UNCHANGED <<environments, idx, phase, created, clients, shells, active_hosts,
                   group_dict, command_str, sendLog, closeLog, lastAdd, defined>>
    /\ heap' = [heap EXCEPT ![active_hosts] = @ \ {recv_hostname}]
DrainFrame ==
    UNCHANGED <<environments, idx, phase, created, clients, shells, heap, active_hosts,
                group_dict, command_str, sendLog, closeLog, lastAdd, defined>>

\* recv is read: manager.recv() starts the loop over the active hosts
Recv ==
    /\ Read(<<"recv">>)
    /\ pc' = "for"
    /\ todo' = RecvHosts
    /\ out' = Msg("")
    /\ sendLog' = <<>>
    /\ lastAdd' = NoAdd
    /\ UNCHANGED <<environments, idx, created, clients, shells, closeLog>>
    /\ UNCHANGED <<phase, heap, active_hosts, group_dict, defined,
                   recv_hostname, ready, headers, chunks, hadData>>

\* recv comes to a stream: its buffer holds what the remote has sent so far
Enter(stage) ==
    /\ pc' = stage
    /\ ready' \in 0..MaxBuf
    /\ hadData' = (ready' > 0)
    /\ headers' = 0
    /\ chunks' = 0

\* for hostname in self.active_hosts: the next host, in no order the program chooses
DrainVisit ==
    /\ pc = "for"
    /\ \E h \in todo :
        /\ recv_hostname' = h
        /\ todo' = todo \ {h}
    /\ Enter("if_stdout")
    /\ out' = Msg("")
    /\ DrainFrame

\* the loop is over: recv returns to the command loop
DrainReturn ==
    /\ pc = "for"
    /\ todo = {}
    /\ pc' = "loop"
    /\ recv_hostname' = ""
    /\ ready' = 0
    /\ headers' = 0
    /\ chunks' = 0
    /\ hadData' = FALSE
    /\ out' = Msg("")
    /\ UNCHANGED todo
    /\ DrainFrame

\* if shell.recv_ready(): print('***STDOUT from ...'), and the same for stderr
DrainIf ==
    /\ pc \in {"if_stdout", "if_stderr"}
    /\ IF RecvReady(ready)
       THEN /\ headers' = headers + 1
            /\ out' = HostsMsg(IF pc = "if_stdout" THEN "***STDOUT from"
                                                   ELSE "***STDERR from", {recv_hostname})
       ELSE /\ headers' = headers
            /\ out' = Msg("")
    /\ pc' = IF pc = "if_stdout" THEN "while_stdout" ELSE "while_stderr"
    /\ UNCHANGED <<todo, recv_hostname, ready, chunks, hadData>>
    /\ DrainFrame

\* while shell.recv_ready(): print(shell.recv(1024)), one turn of the loop
DrainRead ==
    /\ pc \in {"while_stdout", "while_stderr"}
    /\ ready > 0
    /\ ready' = ready - 1
    /\ chunks' = IF chunks < MaxBuf THEN chunks + 1 ELSE chunks
    /\ out' = HostsMsg("chunk", {recv_hostname})
    /\ UNCHANGED <<pc, todo, recv_hostname, headers, hadData>>
    /\ DrainFrame

\* the while loop ends: on to stderr, or to the next host
DrainNext ==
    /\ pc \in {"while_stdout", "while_stderr"}
    /\ ready = 0
    /\ IF pc = "while_stdout"
       THEN Enter("if_stderr") /\ UNCHANGED <<todo, recv_hostname>>
       ELSE /\ pc' = "for"
            /\ UNCHANGED <<todo, recv_hostname, ready, headers, chunks, hadData>>
    /\ out' = Msg("")
    /\ DrainFrame

\* the steps of the program within recv
DrainStep == DrainVisit \/ DrainReturn \/ DrainIf \/ DrainRead \/ DrainNext

\* the remote host sends one more chunk on the stream under drain
Produce ==
    /\ pc \in {"if_stdout", "while_stdout", "if_stderr", "while_stderr"}
    /\ ready < MaxBuf
    /\ ready' = ready + 1
    /\ hadData' = TRUE
    /\ UNCHANGED <<environments, idx, phase, created, clients, shells, heap, active_hosts,
                   group_dict, command_str, out, sendLog, closeLog, lastAdd, defined,
                   pc, todo, recv_hostname, headers, chunks>>

Next ==
    \/ AddClient
    \/ ConnectFail
    \/ Confirm
    \/ EmptyLine
    \/ Hosts
    \/ Switch
    \/ Add
    \/ Rm
    \/ Group
    \/ Groups
    \/ Exec
    \/ Help
    \/ Quit
    \/ Invalid
    \/ Recv
    \/ DrainVisit
    \/ DrainReturn
    \/ DrainIf
    \/ DrainRead
    \/ DrainNext
    \/ Produce

Spec == Init /\ [][Next]_vars

\* the same program, with the history variable "defined" recorded
NextHistory ==
    \/ AddClient
    \/ ConnectFail
    \/ Confirm
    \/ EmptyLine
    \/ Hosts
    \/ Switch
    \/ Add
    \/ Rm
    \/ GroupRecorded
    \/ Groups
    \/ Exec
    \/ Help
    \/ Quit
    \/ Invalid
    \/ Recv
    \/ DrainVisit
    \/ DrainReturn
    \/ DrainIf
    \/ DrainRead
    \/ DrainNext
    \/ Produce

SpecHistory == Init /\ [][NextHistory]_vars

\* the program does not stop in the middle of recv: a step of recv that can be
\* taken is taken.  Nothing is assumed of the remote hosts.
SpecFair == Spec /\ WF_vars(DrainStep)

\* ------------------------------------------------------------------ claims
\* the most recent line is the command name, with these many arguments or more
IsCmd(line, name, least) ==
    /\ SplitWs(line) # <<>>
    /\ CommandName(line) = name
    /\ Len(CommandArgs(line)) >= least

\* the text typed after "exec" and the whitespace character that ends the word
ExecText(line) == IF Len(line) <= 2 THEN <<>> ELSE SubSeq(line, 3, Len(line))

\* the number of sendall calls made on a channel by the most recent command
Writes(shell) == Cardinality({i \in DOMAIN sendLog : sendLog[i].shell = shell})

\* the number of close calls made on a channel or a client
Closes(kind, id) ==
    Cardinality({i \in DOMAIN closeLog : closeLog[i] = [kind |-> kind, id |-> id]})

\* C1: once "switch g" has made the active set equal to the members of group g,
\* an add or rm leaves the members stored for g as they were.
C1_GroupKeptOnAddRm ==
    [][(/\ phase = "Interactive"
        /\ IsCmd(command_str, "switch", 1)
        /\ CommandArgs(command_str)[1] # "all"
        /\ CommandArgs(command_str)[1] \in DOMAIN group_dict
        /\ ActiveSet = GroupRegistry[CommandArgs(command_str)[1]]
        /\ (IsCmd(command_str', "add", 1) \/ IsCmd(command_str', "rm", 1)))
       => GroupRegistry' = GroupRegistry]_vars

\* the arguments of a line that stand where a host is expected: all of them
\* for add and rm, those after the name for group, and for switch all of them
\* but a first argument that is "all" or names a group
HostArguments(line) ==
    LET args == CommandArgs(line) IN
    IF CommandName(line) = "group" THEN Range(Tail(args))
    ELSE IF CommandName(line) = "switch"
              /\ (args[1] = "all" \/ args[1] \in DOMAIN group_dict)
         THEN Range(Tail(args))
    ELSE Range(args)

\* C2: a switch, add, rm or group with an argument that is no key of the
\* session registry changes neither the active set nor the group registry nor
\* the session registry, and prints an error message.
C2_UnknownHostRejected ==
    [][(/\ phase = "Interactive"
        /\ \/ IsCmd(command_str', "switch", 1)
           \/ IsCmd(command_str', "add", 1)
           \/ IsCmd(command_str', "rm", 1)
           \/ IsCmd(command_str', "group", 2)
        /\ \E host \in HostArguments(command_str') : host \notin Registry)
       => /\ ActiveSet' = ActiveSet
          /\ GroupRegistry' = GroupRegistry
          /\ clients' = clients
          /\ shells' = shells
          /\ out'.msg \in {"Invalid switch.", "Invalid host(s)."}]_vars

\* C3: once startup is over, every host of the active set is a key of the
\* session registry.
C3_ActiveSubsetOfRegistry ==
    phase \in {"Interactive", "Terminated", "Crashed"} => ActiveSet \subseteq Registry

C3_Witness ==
    /\ phase = "Interactive"
    /\ IsCmd(command_str, "add", 1)
    /\ lastAdd # NoAdd
    /\ lastAdd.active = {}
    /\ ActiveSet = {"h2"}
    /\ Registry = {"h1", "h2"}

\* C4, as claimed: add X directly followed by rm X leaves the active set as
\* it was before the add.
C4_AddRmRestores ==
    (phase = "Interactive" /\ IsCmd(command_str, "rm", 1) /\ lastAdd # NoAdd)
    => ActiveSet = lastAdd.active

\* C4, amended: add X directly followed by rm X leaves the active set equal
\* to what it was before the add, less the hosts of X; that is what it was
\* before when no host of X was active.
C4_AddRmRemoves ==
    (phase = "Interactive" /\ IsCmd(command_str, "rm", 1) /\ lastAdd # NoAdd)
    => /\ ActiveSet = lastAdd.active \ lastAdd.hosts
       /\ lastAdd.active \cap lastAdd.hosts = {} => ActiveSet = lastAdd.active

C4_Witness ==
    /\ phase = "Interactive"
    /\ IsCmd(command_str, "rm", 1)
    /\ lastAdd = [hosts |-> {"h2"}, active |-> {"h1", "h2"}]
    /\ ActiveSet = {"h1"}

\* C5, as claimed: "switch X" with every host of X a key of the session
\* registry sets the active set to the set of X.
C5_SwitchReplaces ==
    (/\ phase = "Interactive"
     /\ IsCmd(command_str, "switch", 1)
     /\ KnownHosts(Range(CommandArgs(command_str))))
    => ActiveSet = Range(CommandArgs(command_str))

\* C5, amended: "switch X" with every host of X a key of the session registry,
\* and the first word of X neither "all" nor the name of a group, sets the
\* active set to the set of X.
C5_SwitchHostsReplaces ==
    (/\ phase = "Interactive"
     /\ IsCmd(command_str, "switch", 1)
     /\ KnownHosts(Range(CommandArgs(command_str)))
     /\ CommandArgs(command_str)[1] # "all"
     /\ CommandArgs(command_str)[1] \notin DOMAIN group_dict)
    => ActiveSet = Range(CommandArgs(command_str))

C5_Witness ==
    /\ phase = "Interactive"
    /\ command_str = <<"switch", SP, "h2">>
    /\ Registry = {"h1", "h2"}
    /\ DOMAIN group_dict = {"h1", "web"}
    /\ ActiveSet = {"h2"}

\* C6: "switch name", with name in the group registry, sets the active set to
\* the hosts given when the group was last defined.
C6_SwitchGroupAsDefined ==
    (/\ phase = "Interactive"
     /\ IsCmd(command_str, "switch", 1)
     /\ CommandArgs(command_str)[1] \in DOMAIN group_dict)
    => ActiveSet = defined[CommandArgs(command_str)[1]]

\* C7, as claimed: with no write failing, exec writes its text and a newline
\* once to the channel of every active host and nothing to any other channel.
C7_ExecWritesText ==
    (IsCmd(command_str, "exec", 0) /\ \A i \in DOMAIN sendLog : sendLog[i].ok)
    => /\ \A h \in Registry : Writes(shells[h]) = IF h \in ActiveSet THEN 1 ELSE 0
       /\ \A i \in DOMAIN sendLog : sendLog[i].data = ExecText(command_str) \o <<NL>>

\* C7, amended: with no write failing, exec writes the words of its text,
\* joined by single spaces, and a newline once to the channel of every active
\* host and nothing to any other channel.
C7_ExecWritesWords ==
    (IsCmd(command_str, "exec", 0) /\ \A i \in DOMAIN sendLog : sendLog[i].ok)
    => /\ \A h \in Registry : Writes(shells[h]) = IF h \in ActiveSet THEN 1 ELSE 0
       /\ \A i \in DOMAIN sendLog :
            /\ sendLog[i].data = JoinSp(SplitWs(ExecText(command_str))) \o <<NL>>
            /\ sendLog[i].shell = shells[sendLog[i].hostname]

C7_Witness ==
    /\ phase = "Interactive"
    /\ command_str = <<"exec", SP, "ls", SP>>
    /\ Registry = {"h1", "h2"}
    /\ ActiveSet = {"h1"}
    /\ Len(sendLog) = 1
    /\ sendLog[1].ok
    /\ sendLog[1].data = <<"ls", NL>>

\* C8: a broadcast attempts the write on every host of the active set, also
\* when a write fails.
C8_AllHostsAttempted ==
    IsCmd(command_str, "exec", 0)
    => {sendLog[i].hostname : i \in DOMAIN sendLog} = ActiveSet

\* C9: every session made by a connect that succeeded is closed once, by quit
\* and not before: its channel and its client each get one close call.
C9_ClosedOnceAtQuit ==
    /\ phase # "Terminated" => closeLog = <<>>
    /\ phase = "Terminated" =>
          \A id \in 1..created : Closes("shell", id) = 1 /\ Closes("client", id) = 1

\* C10: teardown closes the channel of every host of the session registry,
\* active or not, and every channel before any client.
C10_TeardownClosesAll ==
    phase = "Terminated" =>
        /\ \A h \in Registry : Closes("shell", shells[h]) >= 1
        /\ \A i, j \in DOMAIN closeLog :
              (closeLog[i].kind = "shell" /\ closeLog[j].kind = "client") => i < j

C10_Witness ==
    /\ phase = "Terminated"
    /\ Registry = {"h1", "h2"}
    /\ ActiveSet = {"h1"}
    /\ Closes("shell", shells["h2"]) = 1
    /\ Closes("client", clients["h2"]) = 1

\* ------------------------------------------------------------ claims C11..
\* the stages of recv at which a channel is asked whether it is ready
Polls == {"if_stdout", "while_stdout", "if_stderr", "while_stderr"}

\* C11: a recv that has started returns to the command loop, whatever the
\* remote hosts send while it runs.
C11_DrainReturns == (pc # "loop") ~> (pc = "loop")

\* C12: recv visits hosts of the active set only, and a step taken at a stream
\* with nothing ready prints no header and reads nothing.
C12_SilentStreamUntouched ==
    /\ [](pc # "loop" => todo \cup ({recv_hostname} \ {""}) \subseteq ActiveSet)
    /\ [][(pc \in Polls /\ ready = 0) => (headers' <= headers /\ chunks' <= chunks)]_vars

C12_Witness ==
    /\ pc = "while_stdout"
    /\ recv_hostname = "h1"
    /\ ~hadData
    /\ headers = 0
    /\ chunks = 0
    /\ Registry = {"h1", "h2"}
    /\ ActiveSet = {"h1"}

\* C13: while the command loop runs, the session registry keeps the hosts of
\* the startup, each with the client and channel it was given, and nothing is
\* closed.
C13_RegistryKept ==
    /\ [](phase = "Interactive" =>
            /\ Registry = Range(environments)
            /\ DOMAIN shells = Registry
            /\ closeLog = <<>>)
    /\ [][(phase = "Interactive" /\ phase' = "Interactive") =>
            (clients' = clients /\ shells' = shells)]_vars

C13_Witness ==
    /\ phase = "Interactive"
    /\ IsCmd(command_str, "rm", 1)
    /\ Registry = {"h1", "h2"}
    /\ DOMAIN shells = {"h1", "h2"}
    /\ ActiveSet = {"h1"}
    /\ closeLog = <<>>

\* how far the process has come: connecting, in the command loop, ended
PhaseRank(p) ==
    CASE p = "Connecting" -> 0
      [] p = "Interactive" -> 1
      [] OTHER -> 2

\* C14: the process only moves forward, quit is followed by the teardown at
\* once, and after it nothing is read and nothing changes.
C14_ForwardOnly ==
    /\ [](command_str = <<"quit">> => (phase = "Terminated" /\ closeLog # <<>>))
    /\ [][phase # "Terminated" /\ PhaseRank(phase') >= PhaseRank(phase)]_vars

C14_Witness ==
    /\ phase = "Terminated"
    /\ command_str = <<"quit">>
    /\ closeLog # <<>>
    /\ DOMAIN group_dict = {"web"}

\* C15: a connect that fails ends the program at that host: no command is
\* ever read, and the command loop is entered only with every host argument
\* connected.
C15_FailedConnectAborts ==
    /\ [](phase = "Aborted" =>
            /\ created < Len(environments)
            /\ command_str = <<>>
            /\ out = Msg("")
            /\ sendLog = <<>>
            /\ closeLog = <<>>)
    /\ [](phase \in {"Interactive", "Terminated", "Crashed"} =>
            created = Len(environments))
    /\ [][phase # "Aborted"]_vars

C15_Witness ==
    /\ phase = "Aborted"
    /\ created = 1
    /\ Len(environments) = 2
    /\ Registry = {"h1"}

\* C16: the hosts are connected in the order of the arguments, and when the
\* command loop starts the active set and the keys of the session registry are
\* both the set of the host arguments.
C16_StartsWithAllActive ==
    /\ [](phase = "Connecting" =>
            /\ created = idx - 1
            /\ Registry = Range(SubSeq(environments, 1, idx - 1))
            /\ \A h \in Registry :
                  /\ clients[h] < idx
                  /\ environments[clients[h]] = h
                  /\ shells[h] = clients[h])
    /\ [][(phase = "Connecting" /\ phase' = "Interactive") =>
            /\ ActiveSet' = Range(environments)
            /\ Registry' = Range(environments)
            /\ DOMAIN shells' = Range(environments)]_vars

C16_Witness ==
    /\ phase = "Interactive"
    /\ command_str = <<>>
    /\ environments = <<"h2", "h1">>
    /\ ActiveSet = {"h1", "h2"}
    /\ Registry = {"h1", "h2"}
    /\ clients["h2"] = 1
    /\ clients["h1"] = 2

\* C17: in a recv, a chunk is printed for a stream only after the one header
\* of that stream.
C17_ChunkHasHeader == (pc # "loop" /\ chunks > 0) => headers = 1

\* the lines that are empty, or exec, recv, hosts, groups, help, or no command
QuietLine(line) ==
    \/ SplitWs(line) = <<>>
    \/ /\ SplitWs(line) # <<>>
       /\ \/ CommandName(line) \in {"exec", "recv", "hosts", "groups", "help"}
          \/ CommandName(line) \notin {"switch", "add", "rm", "group", "quit"}
          \/ CommandName(line) \in {"switch", "add", "rm"} /\ Len(CommandArgs(line)) = 0
          \/ CommandName(line) = "group" /\ Len(CommandArgs(line)) <= 1

\* C18: exec, recv (every step of it), hosts, groups, help, an empty line and
\* a line that is no command leave the active set, the groups and the session
\* registry as they were.
C18_QuietCommands ==
    [][(phase = "Interactive" /\ QuietLine(command_str')) =>
          /\ ActiveSet' = ActiveSet
          /\ active_hosts' = active_hosts
          /\ GroupRegistry' = GroupRegistry
          /\ heap' = heap
          /\ clients' = clients
          /\ shells' = shells]_vars

C18_Witness ==
    /\ pc = "loop"
    /\ command_str = <<"recv">>
    /\ ActiveSet = {"h1"}
    /\ Registry = {"h1", "h2"}
    /\ DOMAIN group_dict = {"web"}

\* C19: the members of every stored group are keys of the session registry,
\* at all times; a group command that succeeds stores the hosts given under
\* the name given, and leaves the other groups and the active set as they were.
C19_GroupsWithinRegistry ==
    /\ [](\A n \in DOMAIN group_dict : GroupRegistry[n] \subseteq Registry)
    /\ [][(phase = "Interactive" /\ IsCmd(command_str', "group", 2)) =>
            LET group_name == CommandArgs(command_str')[1] IN
            /\ ActiveSet' = ActiveSet
            /\ DOMAIN group_dict' \subseteq DOMAIN group_dict \cup {group_name}
            /\ \A n \in DOMAIN group_dict \ {group_name} :
                  n \in DOMAIN group_dict' /\ GroupRegistry'[n] = GroupRegistry[n]
            /\ out'.msg = "Created group" =>
                  /\ group_name \in DOMAIN group_dict'
                  /\ GroupRegistry'[group_name] = Range(Tail(CommandArgs(command_str')))]_vars

C19_Witness ==
    /\ phase = "Interactive"
    /\ command_str = <<"group", SP, "web", SP, "h2">>
    /\ out.msg = "Created group"
    /\ DOMAIN group_dict = {"h1", "web"}
    /\ GroupRegistry["h1"] = {"h1"}
    /\ GroupRegistry["web"] = {"h2"}
    /\ ActiveSet = {"h1"}

====
